---- MODULE Spec2Model ----
(***************************************************************************)
(* Model of src/route.py: the Flask handlers /outlierv1 and /explain that  *)
(* call the MarginBot engine (v1.core, not part of src/) and build the     *)
(* JSON responses, with the file system they share (the source CSV, the    *)
(* output directory and the artifact out/outliers_rules.csv).              *)
(*                                                                         *)
(* Units: money amounts are in units of 100,000 (5,000,000 is 50);         *)
(* percentage thresholds are in percent (0.25 is 25).                      *)
(* Non-ASCII column names and tokens of the source are written in ASCII:   *)
(* "DELTA" is the Greek capital delta column, "%DELTA" the percent-delta   *)
(* column, "CHECK" the check-mark token.                                   *)
(***************************************************************************)
EXTENDS Integers, Sequences, FiniteSets, TLC

VARIABLES pc, req, result, response_data, resp, hist,
          artifact, outDirExists, csvPresent

vars == <<pc, req, result, response_data, resp, hist,
          artifact, outDirExists, csvPresent>>

\* ------------------------------------------------------------ bounds
MaxTopN == 2

\* ------------------------------------------------- program constants
DefaultAbsThreshold == 50
DefaultPctThreshold == 25
DefaultZThreshold == 3
DefaultTopN == 20

csv_path == "data/sample_summary.csv"
out_csv == "out/outliers_rules.csv"
MissingCsv == "data/missing.csv"

Reqs == {"r1", "r2"}

\* ------------------------------------------------------------ values
\* Python None and Python floats (num/den; for a z-score den is the
\* cohort's n^2 * variance and the value is num / sqrt(den)).
None == <<"None">>
Float(n, d) == <<"float", n, d>>

Abs(x) == IF x < 0 THEN -x ELSE x
Min(a, b) == IF a < b THEN a ELSE b
Take(s, n) == SubSeq(s, 1, Min(Len(s), IF n < 0 THEN 0 ELSE n))

\* Python's seq[:n]: a negative n drops the last -n elements.
Slice(s, n) == IF n >= 0 THEN Take(s, n) ELSE Take(s, Len(s) + n)

EmptyDict == [k \in {} |-> None]
Get(d, k, default) == IF k \in DOMAIN d THEN d[k] ELSE default

\* Text of a form field or CSV cell holding a number, and text that is
\* no number.
NumText(n) == <<"num", n, 1>>
BadText == <<"text">>
EmptyCell == <<>>

\* float(text), int(text): ValueError on text that is no number.
IsNumber(t) == Len(t) = 3 /\ t[1] = "num"
ParseNum(t) == t[2]

\* ------------------------------------------------------------ source
\* data/sample_summary.csv: one date cohort, the rows of two centers.
SampleSummary ==
  << [center |-> "NPM", header |-> "A", applied_t1 |-> 10, applied_t |-> 70],
     [center |-> "XYZ", header |-> "C", applied_t1 |-> 0,  applied_t |-> 2],
     [center |-> "NPM", header |-> "B", applied_t1 |-> 10, applied_t |-> 14],
     [center |-> "NPM", header |-> "E", applied_t1 |-> 10, applied_t |-> 8] >>

RECURSIVE SelectSeqBy(_, _)
SelectSeqBy(s, c) ==
  IF s = <<>> THEN <<>>
  ELSE IF Head(s).center = c THEN <<Head(s)>> \o SelectSeqBy(Tail(s), c)
       ELSE SelectSeqBy(Tail(s), c)

\* load(source): the rows of the source; a missing file raises.
load(path) == IF path = csv_path THEN SampleSummary ELSE <<>>

RECURSIVE SumDelta(_)
SumDelta(s) ==
  IF s = <<>> THEN 0
  ELSE (Head(s).applied_t - Head(s).applied_t1) + SumDelta(Tail(s))

RECURSIVE SumDeltaSq(_)
SumDeltaSq(s) ==
  IF s = <<>> THEN 0
  ELSE (Head(s).applied_t - Head(s).applied_t1)
        * (Head(s).applied_t - Head(s).applied_t1) + SumDeltaSq(Tail(s))

\* n^2 * (population variance of delta over the cohort)
CohortVar(cohort) ==
  Len(cohort) * SumDeltaSq(cohort) - SumDelta(cohort) * SumDelta(cohort)

\* ------------------------------------------------------ the flag rule
Delta(row) == row.applied_t - row.applied_t1

AbsRule(row, abs_t) == Abs(Delta(row)) >= abs_t

PctRule(row, pct_t) ==
  row.applied_t1 # 0 /\ Abs(Delta(row)) * 100 >= pct_t * Abs(row.applied_t1)

ZDefined(cohort) == Len(cohort) >= 2 /\ CohortVar(cohort) > 0

ZNum(row, cohort) == Len(cohort) * Delta(row) - SumDelta(cohort)

ZRule(row, cohort, z_t) ==
  ZDefined(cohort)
  /\ ZNum(row, cohort) * ZNum(row, cohort) >= z_t * z_t * CohortVar(cohort)

FlagRule(row, cohort, th) ==
  AbsRule(row, th[1]) \/ PctRule(row, th[2]) \/ ZRule(row, cohort, th[3])

\* One evaluated Record with its derived fields.
Annotate(row, cohort, th) ==
  [ header |-> row.header,
    applied_t1 |-> Float(row.applied_t1, 1),
    applied_t |-> Float(row.applied_t, 1),
    delta |-> Float(Delta(row), 1),
    pct_change |-> IF row.applied_t1 # 0
                   THEN Float(Delta(row), row.applied_t1) ELSE None,
    z_score |-> IF ZDefined(cohort)
                THEN Float(ZNum(row, cohort), CohortVar(cohort)) ELSE None,
    flag |-> FlagRule(row, cohort, th) ]

Evaluated(rows, center, th) ==
  LET cohort == SelectSeqBy(rows, center)
  IN [i \in 1..Len(cohort) |-> Annotate(cohort[i], cohort, th)]

RECURSIVE Flagged(_)
Flagged(s) ==
  IF s = <<>> THEN <<>>
  ELSE IF Head(s).flag THEN <<Head(s)>> \o Flagged(Tail(s))
       ELSE Flagged(Tail(s))

\* a ranks strictly before b: larger |z| first (undefined z last), then
\* larger |delta|.
ZKey(e) == IF e.z_score = None THEN -1 ELSE Abs(e.z_score[2])
Before(a, b) ==
  \/ ZKey(a) > ZKey(b)
  \/ ZKey(a) = ZKey(b) /\ Abs(a.delta[2]) > Abs(b.delta[2])

RECURSIVE Insert(_, _)
Insert(e, s) ==
  IF s = <<>> THEN <<e>>
  ELSE IF ~Before(Head(s), e) THEN <<e>> \o s
       ELSE <<Head(s)>> \o Insert(e, Tail(s))

\* Stable: elements are inserted from the last to the first, each in front
\* of its exact ties.
RECURSIVE Rank(_)
Rank(s) == IF s = <<>> THEN <<>> ELSE Insert(Head(s), Rank(Tail(s)))

\* ------------------------------------------------------------ engine
\* MarginBot.outliers validates its parameters before any row is read.
ParamsInDomain(th, n) == n > 0 /\ th[1] >= 0 /\ th[2] >= 0 /\ th[3] >= 0

\* The engine's configured thresholds, used by explain_summary.
ConfiguredThresholds ==
  <<DefaultAbsThreshold, DefaultPctThreshold, DefaultZThreshold>>

DatesAnalyzed == "t1 vs t"

\* The Evaluation Result: counts over the full evaluation, the first top_n
\* ranked flagged records.
EvaluationResult(rows, center, th, n) ==
  LET ev == Evaluated(rows, center, th)
      ranked == Rank(Flagged(ev))
  IN [ flagged_count |-> Len(ranked),
       total_count |-> Len(ev),
       dates_analyzed |-> DatesAnalyzed,
       top_outliers |-> Take(ranked, n) ]

\* The same evaluation returned as a bare list of the ranked flagged
\* records (the shape route.py's list branch accepts).
EvaluationList(rows, center, th) == Rank(Flagged(Evaluated(rows, center, th)))

FormatNum(v) == IF v = None THEN EmptyCell ELSE <<"num", v[2], v[3]>>
FormatFlag(b) == IF b THEN "True" ELSE "False"

\* One row of the artifact, under the canonical column names.
ArtifactRow(e) ==
  [ k \in {"HEADER", "APPLIED_t1", "APPLIED_t", "DELTA", "%DELTA", "Z", "FLAG"} |->
      CASE k = "HEADER" -> e.header
        [] k = "APPLIED_t1" -> FormatNum(e.applied_t1)
        [] k = "APPLIED_t" -> FormatNum(e.applied_t)
        [] k = "DELTA" -> FormatNum(e.delta)
        [] k = "%DELTA" -> FormatNum(e.pct_change)
        [] k = "Z" -> FormatNum(e.z_score)
        [] OTHER -> FormatFlag(e.flag) ]

\* The artifact holds every evaluated row, flagged or not.
ArtifactRows(rows, center, th) ==
  LET ev == Evaluated(rows, center, th)
  IN [i \in 1..Len(ev) |-> ArtifactRow(ev[i])]

Matches(rows, center, header) ==
  {i \in 1..Len(rows) : rows[i].center = center /\ rows[i].header = header}

\* MarginBot.explain_summary for the unique matching row.
Explanation(rows, center, header) ==
  LET i == CHOOSE j \in Matches(rows, center, header) : TRUE
      cohort == SelectSeqBy(rows, center)
      th == ConfiguredThresholds
      e == Annotate(rows[i], cohort, th)
  IN [ header |-> header,
       delta |-> e.delta,
       pct_change |-> e.pct_change,
       z_score |-> e.z_score,
       thresholds |-> th,
       abs_rule |-> AbsRule(rows[i], th[1]),
       pct_rule |-> PctRule(rows[i], th[2]),
       z_rule |-> ZRule(rows[i], cohort, th[3]),
       flag |-> AbsRule(rows[i], th[1]) \/ PctRule(rows[i], th[2])
                \/ ZRule(rows[i], cohort, th[3]) ]

\* ------------------------------------------------------------- forms
Field(k, v) == [x \in {k} |-> v]

\* request.form.get(key, default) of lines 51-59 and 191-193
mode(form) == Get(form, "mode", "rules")
center(form) == Get(form, "center", "NPM")
action(form) == Get(form, "action", "analyze")
abs_threshold_text(form) == Get(form, "abs_threshold", NumText(DefaultAbsThreshold))
pct_threshold_text(form) == Get(form, "pct_threshold", NumText(DefaultPctThreshold))
z_threshold_text(form) == Get(form, "z_threshold", NumText(DefaultZThreshold))
top_n_text(form) == Get(form, "top_n", NumText(DefaultTopN))

\* float(...) three times and int(...) all succeed (lines 56-59)
FormParses(form) ==
  /\ IsNumber(abs_threshold_text(form))
  /\ IsNumber(pct_threshold_text(form))
  /\ IsNumber(z_threshold_text(form))
  /\ IsNumber(top_n_text(form))

thresholds(form) ==
  << ParseNum(abs_threshold_text(form)),
     ParseNum(pct_threshold_text(form)),
     ParseNum(z_threshold_text(form)) >>
\* Mutant of top_n: a top_n that is not positive is replaced by the default.
top_n_defaulted(form) ==
  IF ParseNum(top_n_text(form)) <= 0 THEN DefaultTopN ELSE ParseNum(top_n_text(form))

\* int(request.form.get('top_n', 20)), line 59
top_n(form) == ParseNum(top_n_text(form))

\* The forms of the model. The valid ones: the defaults, the other centers,
\* an abs_threshold that flags every row of a center, and top_n below and at
\* the number of rows.
ValidForms ==
  {EmptyDict, Field("center", "XYZ"), Field("center", "ZZZ")}
    \cup {Field("abs_threshold", NumText(1)) @@ Field("top_n", NumText(k)) : k \in 1..MaxTopN}
    \cup {Field("center", "XYZ") @@ Field("top_n", NumText(k)) : k \in 1..MaxTopN}

OutOfDomainForms ==
  { Field("abs_threshold", NumText(-1)),
    Field("pct_threshold", NumText(-1)),
    Field("z_threshold", NumText(-1)),
    Field("top_n", NumText(0)),
    Field("top_n", NumText(-1)),
    Field("mode", "ai") @@ Field("top_n", NumText(0)) }

OtherForms ==
  { Field("top_n", BadText),
    Field("mode", "ai"),
    Field("mode", "manual") }

OutlierForms == ValidForms \cup OutOfDomainForms \cup OtherForms

ExplainForms ==
  { EmptyDict,
    Field("header", "A"),
    Field("header", "E"),
    Field("header", "Z"),
    Field("header", "E") @@ Field("center", "XYZ"),
    Field("header", "E") @@ Field("csv_path", MissingCsv) }

\* ---------------------------------------------------------- responses
Json(body, code) == [body |-> body, http_status |-> code]

NoReq == [route |-> "none", method |-> "none", form |-> EmptyDict]
NoResult == [kind |-> "none", value |-> <<>>]
NoResp == Json(EmptyDict, 0)

NoHist ==
  [ csv_checked |-> FALSE, dir_ok |-> FALSE, engine_called |-> FALSE,
    engine_raised |-> FALSE, engine_returned |-> FALSE,
    source_existed |-> FALSE, rows_processed |-> FALSE, wrote |-> FALSE,
    read |-> FALSE, populated |-> {}, read_writer |-> "none" ]

\* lines 40-43
ReadyResponse ==
  Json([status |-> "ready", message |-> "Submit POST request with parameters"], 200)

ErrorBody(msg) == [success |-> FALSE, error |-> msg]

\* lines 63-66
CsvNotFoundResponse == Json(ErrorBody(<<"CSV file not found", csv_path>>), 400)
\* lines 91-94
AiModeResponse == Json(ErrorBody(<<"AI-based mode is not yet implemented">>), 501)
\* lines 97-100
InvalidModeResponse(m) == Json(ErrorBody(<<"Invalid mode", m>>), 400)

\* An exception: its class, whether the class derives from ValueError, and
\* its message.
Exc(type, is_value_error, msg) ==
  [type |-> type, is_value_error |-> is_value_error, msg |-> msg]

\* the except clauses of outlierv1, lines 169-182
OutlierExceptResponse(e) ==
  IF e.is_value_error
  THEN Json(ErrorBody(<<"Invalid parameter value", e.type, e.msg>>), 400)
  ELSE Json(ErrorBody(<<"Internal error", e.type, e.msg>>), 500)

\* Mutant of ExplainExceptResponse: the exception is swallowed and an empty
\* explanation is returned.
ExplainExceptSwallowed(e) == Json([success |-> TRUE, explanation |-> e.msg], 200)

\* the except clause of explain, lines 215-219
ExplainExceptResponse(e) == Json(ErrorBody(<<e.type, e.msg>>), 500)

\* lines 196-199
HeaderRequiredResponse == Json(ErrorBody(<<"Header account ID is required">>), 400)

\* lines 208-213
ExplainResponse(form, explanation) ==
  Json([ success |-> TRUE, center |-> center(form),
         header |-> form["header"], explanation |-> explanation ], 200)

\* response_data of lines 103-110
BaseResponseData(form) ==
  [ success |-> TRUE, mode |-> mode(form), center |-> center(form),
    output_file |-> out_csv, action |-> action(form),
    csv_url |-> "/download/outliers_rules.csv" ]

\* dict.update
Update(d, new) == new @@ d

\* lines 113-119
DictFields(res) ==
  [ flagged_count |-> Get(res, "flagged_count", 0),
    total_count |-> Get(res, "total_count", 0),
    dates_analyzed |-> Get(res, "dates_analyzed", ""),
    top_outliers |-> Get(res, "top_outliers", <<>>) ]

\* lines 122-128 (every element of the list is a dict)
ListTopOutliers(res, n) == Slice(res, n)
\* Mutant of ListTotalCount: the truncated view is counted.
ListTotalCountTruncated(res, n) == Len(Slice(res, n))

\* line 132
ListTotalCount(res, n) == Len(res)
\* line 133
ListFlaggedCount(res) == Cardinality({i \in 1..Len(res) : Get(res[i], "flag", FALSE)})

\* lines 120-134
ListFields(res, n) ==
  [ top_outliers |-> ListTopOutliers(res, n),
    total_count |-> ListTotalCount(res, n),
    flagged_count |-> ListFlaggedCount(res) ]

\* lines 103-134
BuildResponseData(form, res) ==
  CASE res.kind = "dict" -> Update(BaseResponseData(form), DictFields(res.value))
    [] res.kind = "list" -> Update(BaseResponseData(form), ListFields(res.value, top_n(form)))
    [] OTHER -> BaseResponseData(form)

\* ------------------------------------------- the artifact read back
\* str.lower() on the flag tokens
Lower(t) ==
  CASE t \in {"True", "TRUE"} -> "true"
    [] t \in {"False", "FALSE"} -> "false"
    [] t \in {"Yes", "YES"} -> "yes"
    [] t \in {"No", "NO"} -> "no"
    [] OTHER -> t

\* ['true', '1', 'yes', check mark] of lines 148 and 162
TruthyTokens == {"true", "1", "yes", "CHECK"}

\* Python truthiness of a cell or of a missing key's None
Truthy(c) == c # EmptyCell /\ c # None

\* float(cell)
ToFloat(c) == Float(c[2], c[3])

\* `float(row.get(k1, row.get(k2, 0))) if row.get(k1, row.get(k2)) else None`
FieldFloat(row, k1, k2) ==
  LET c == Get(row, k1, Get(row, k2, None))
  IN IF Truthy(c) THEN ToFloat(c) ELSE None

\* a float() of lines 157-161 raises ValueError
FieldRaises(row, k1, k2) ==
  LET c == Get(row, k1, Get(row, k2, None))
  IN Truthy(c) /\ ~IsNumber(c)

\* line 145
FallbackTotalCount(rows) == Len(rows)

\* line 148: only the FLAG column is looked up
FallbackFlaggedCount(rows) ==
  Cardinality({i \in 1..Len(rows) : Lower(Get(rows[i], "FLAG", "")) \in TruthyTokens})

\* line 162: FLAG, else flag, else 'false'
FallbackFlag(row) ==
  Lower(Get(row, "FLAG", Get(row, "flag", "false"))) \in TruthyTokens

\* lines 155-163
FallbackOutlier(row) ==
  [ header |-> Get(row, "HEADER", Get(row, "header_account_id", "N/A")),
    applied_t1 |-> FieldFloat(row, "APPLIED_t1", "APPLIED_t1"),
    applied_t |-> FieldFloat(row, "APPLIED_t", "APPLIED_t"),
    delta |-> FieldFloat(row, "DELTA", "delta"),
    pct_change |-> FieldFloat(row, "%DELTA", "pct_change"),
    z_score |-> FieldFloat(row, "Z", "z_score"),
    flag |-> FallbackFlag(row) ]

OutlierRaises(row) ==
  \/ FieldRaises(row, "APPLIED_t1", "APPLIED_t1")
  \/ FieldRaises(row, "APPLIED_t", "APPLIED_t")
  \/ FieldRaises(row, "DELTA", "delta")
  \/ FieldRaises(row, "%DELTA", "pct_change")
  \/ FieldRaises(row, "Z", "z_score")

\* lines 153-165: rows[:top_n]
FallbackTopOutliers(rows, n) ==
  LET top == Slice(rows, n)
  IN [i \in 1..Len(top) |-> FallbackOutlier(top[i])]

\* Which fields lines 144-165 take from the artifact.
NeedsTotal(rd) == Get(rd, "total_count", 0) = 0
NeedsFlagged(rd) == Get(rd, "flagged_count", 0) = 0
NeedsTop(rd) == Get(rd, "top_outliers", <<>>) = <<>>

PopulatedFields(rd) ==
  (IF NeedsTotal(rd) THEN {"total_count"} ELSE {})
  \cup (IF NeedsFlagged(rd) THEN {"flagged_count"} ELSE {})
  \cup (IF NeedsTop(rd) THEN {"top_outliers"} ELSE {})

\* lines 144-165 on the rows read from out_csv
FillFromArtifact(rd, rows, n) ==
  LET rd1 == IF NeedsTotal(rd)
             THEN Update(rd, Field("total_count", FallbackTotalCount(rows))) ELSE rd
      rd2 == IF NeedsFlagged(rd1)
             THEN Update(rd1, Field("flagged_count", FallbackFlaggedCount(rows))) ELSE rd1
  IN IF NeedsTop(rd2)
     THEN Update(rd2, Field("top_outliers", FallbackTopOutliers(rows, n))) ELSE rd2

FillRaises(rd, rows, n) ==
  NeedsTop(rd) /\ \E i \in 1..Len(Slice(rows, n)) : OutlierRaises(rows[i])

\* ------------------------------------------------------- file system
NoArtifact == [exists |-> FALSE, rows |-> <<>>, writer |-> "none"]

\* The artifact an earlier run with the defaults left on disk.
EarlierArtifact ==
  [ exists |-> TRUE,
    rows |-> ArtifactRows(SampleSummary, "NPM", ConfiguredThresholds),
    writer |-> "earlier" ]

\* os.path.exists(path) for a source path
SourceExists(path) == path = csv_path /\ csvPresent

\* --------------------------------------------------------------- Init
Init ==
  /\ pc = [r \in Reqs |-> "idle"]
  /\ req = [r \in Reqs |-> NoReq]
  /\ result = [r \in Reqs |-> NoResult]
  /\ response_data = [r \in Reqs |-> EmptyDict]
  /\ resp = [r \in Reqs |-> NoResp]
  /\ hist = [r \in Reqs |-> NoHist]
  /\ csvPresent \in BOOLEAN
  /\ outDirExists \in BOOLEAN
  /\ artifact \in (IF outDirExists THEN {NoArtifact, EarlierArtifact} ELSE {NoArtifact})

\* A new request goes to the first worker that is idle.
FreeSlot(r) == r = "r1" \/ pc["r1"] # "idle"

\* The handler of request r returns `response`.
Return(r, response) ==
  /\ resp' = [resp EXCEPT ![r] = response]
  /\ pc' = [pc EXCEPT ![r] = "done"]

Goto(r, label) ==
  /\ pc' = [pc EXCEPT ![r] = label]
  /\ UNCHANGED resp

\* ----------------------------------------------------------- /outlierv1
\* GET /outlierv1, lines 38-43. The legacy route /outlier (lines 223-229)
\* returns outlierv1() and takes the same steps.
GetOutlierv1(r) ==
  /\ pc[r] = "idle"
  /\ FreeSlot(r)
  /\ req' = [req EXCEPT ![r] = [route |-> "outlierv1", method |-> "GET", form |-> EmptyDict]]
  /\ Return(r, ReadyResponse)
  /\ UNCHANGED <<result, response_data, hist, artifact, outDirExists, csvPresent>>

\* POST /outlierv1, lines 45-66: the form is read and parsed (a ValueError
\* of float() or int() goes to lines 169-173), then the source path is
\* checked. The source file never changes while the server runs.
PostOutlierv1(r) ==
  /\ pc[r] = "idle"
  /\ FreeSlot(r)
  /\ \E form \in OutlierForms :
       /\ req' = [req EXCEPT ![r] = [route |-> "outlierv1", method |-> "POST", form |-> form]]
       /\ IF ~FormParses(form)
          THEN /\ Return(r, OutlierExceptResponse(Exc("ValueError", TRUE, "could not convert")))
               /\ UNCHANGED hist
          ELSE IF ~SourceExists(csv_path)
          THEN /\ Return(r, CsvNotFoundResponse)
               /\ UNCHANGED hist
          ELSE /\ Goto(r, "check_out_dir")
               /\ hist' = [hist EXCEPT ![r].csv_checked = TRUE]
  /\ UNCHANGED <<result, response_data, artifact, outDirExists, csvPresent>>

\* lines 69-70: out_dir is 'out', never empty
CheckOutDir(r) ==
  /\ pc[r] = "check_out_dir"
  /\ IF ~outDirExists
     THEN /\ Goto(r, "makedirs")
          /\ UNCHANGED hist
     ELSE /\ Goto(r, "call_outliers")
          /\ hist' = [hist EXCEPT ![r].dir_ok = TRUE]
  /\ UNCHANGED <<req, result, response_data, artifact, outDirExists, csvPresent>>

\* line 71: os.makedirs raises FileExistsError when another request has
\* created the directory since line 70.
MakeDirs(r) ==
  /\ pc[r] = "makedirs"
  /\ IF outDirExists
     THEN /\ Return(r, OutlierExceptResponse(Exc("FileExistsError", FALSE, "out")))
          /\ UNCHANGED <<hist, outDirExists>>
     ELSE /\ outDirExists' = TRUE
          /\ Goto(r, "call_outliers")
          /\ hist' = [hist EXCEPT ![r].dir_ok = TRUE]
  /\ UNCHANGED <<req, result, response_data, artifact, csvPresent>>

\* MarginBot.outliers(csv_path, center, thresholds, top_n, out_csv): what
\* the call raises or returns, whether rows were processed, and the rows it
\* writes to out_csv. `shape` is the type of the returned value;
\* `write_fails` is the file system refusing the write.
outliers(path, c, th, n, shape, write_fails) ==
  IF ~ParamsInDomain(th, n)
  THEN [ raised |-> TRUE, exc_type |-> "InvalidParameterError", value |-> NoResult,
         rows_processed |-> FALSE, wrote |-> FALSE, rows |-> <<>> ]
  ELSE IF write_fails
  THEN [ raised |-> TRUE, exc_type |-> "PersistenceError", value |-> NoResult,
         rows_processed |-> TRUE, wrote |-> FALSE, rows |-> <<>> ]
  ELSE [ raised |-> FALSE, exc_type |-> "none",
         value |-> IF shape = "dict"
                   THEN [kind |-> "dict", value |-> EvaluationResult(load(path), c, th, n)]
                   ELSE [kind |-> "list", value |-> EvaluationList(load(path), c, th)],
         rows_processed |-> TRUE, wrote |-> TRUE,
         rows |-> ArtifactRows(load(path), c, th) ]

\* MarginBot.explain_summary(csv_path, center, header)
explain_summary(path, c, header) ==
  IF ~SourceExists(path)
  THEN [raised |-> TRUE, exc_type |-> "FileNotFoundError", value |-> EmptyDict]
  ELSE IF Cardinality(Matches(load(path), c, header)) # 1
  THEN [raised |-> TRUE, exc_type |-> "NotFoundError", value |-> EmptyDict]
  ELSE [raised |-> FALSE, exc_type |-> "none", value |-> Explanation(load(path), c, header)]

\* lines 73-134: the dispatch on mode, the engine call and response_data
CallOutliers(r) ==
  /\ pc[r] = "call_outliers"
  /\ LET form == req[r].form IN
     IF mode(form) = "rules"
     THEN \E shape \in {"dict", "list"}, write_fails \in BOOLEAN, is_value_error \in BOOLEAN :
          \E out \in {outliers(csv_path, center(form), thresholds(form),
                               top_n(form), shape, write_fails)} :
               /\ hist' = [hist EXCEPT ![r].engine_called = TRUE,
                                       ![r].source_existed = SourceExists(csv_path),
                                       ![r].engine_raised = out.raised,
                                       ![r].engine_returned = ~out.raised,
                                       ![r].rows_processed = out.rows_processed,
                                       ![r].wrote = out.wrote]
               /\ artifact' = IF out.wrote
                              THEN [exists |-> TRUE, rows |-> out.rows, writer |-> r]
                              ELSE artifact
               /\ IF out.raised
                  THEN /\ Return(r, OutlierExceptResponse(
                                      Exc(out.exc_type, is_value_error, "outliers")))
                       /\ UNCHANGED <<result, response_data>>
                  ELSE /\ result' = [result EXCEPT ![r] = out.value]
                       /\ response_data' =
                            [response_data EXCEPT ![r] = BuildResponseData(form, out.value)]
                       /\ Goto(r, "read_artifact")
     ELSE /\ Return(r, IF mode(form) = "ai" THEN AiModeResponse
                       ELSE InvalidModeResponse(mode(form)))
          /\ UNCHANGED <<result, response_data, hist, artifact>>
  /\ UNCHANGED <<req, outDirExists, csvPresent>>

\* lines 136-167: out_csv is read back and fills what is falsy in
\* response_data; a ValueError of float() goes to lines 169-173.
ReadArtifact(r) ==
  /\ pc[r] = "read_artifact"
  /\ LET rd == response_data[r]
         n == top_n(req[r].form)
     IN IF ~artifact.exists
        THEN /\ Return(r, Json(rd, 200))
             /\ UNCHANGED <<response_data, hist>>
        ELSE IF FillRaises(rd, artifact.rows, n)
        THEN /\ Return(r, OutlierExceptResponse(Exc("ValueError", TRUE, "could not convert")))
             /\ hist' = [hist EXCEPT ![r].read = TRUE, ![r].read_writer = artifact.writer]
             /\ UNCHANGED response_data
        ELSE \E filled \in {FillFromArtifact(rd, artifact.rows, n)} :
             /\ response_data' = [response_data EXCEPT ![r] = filled]
             /\ Return(r, Json(filled, 200))
             /\ hist' = [hist EXCEPT ![r].read = TRUE,
                                     ![r].read_writer = artifact.writer,
                                     ![r].populated = PopulatedFields(rd)]
  /\ UNCHANGED <<req, result, artifact, outDirExists, csvPresent>>

\* ------------------------------------------------------------- /explain
\* POST /explain, lines 190-199
PostExplain(r) ==
  /\ pc[r] = "idle"
  /\ FreeSlot(r)
  /\ \E form \in ExplainForms :
       /\ req' = [req EXCEPT ![r] = [route |-> "explain", method |-> "POST", form |-> form]]
       /\ IF "header" \in DOMAIN form
          THEN Goto(r, "call_explain")
          ELSE Return(r, HeaderRequiredResponse)
  /\ UNCHANGED <<result, response_data, hist, artifact, outDirExists, csvPresent>>

\* lines 201-219
CallExplain(r) ==
  /\ pc[r] = "call_explain"
  /\ LET form == req[r].form
         path == Get(form, "csv_path", csv_path)
     IN \E out \in {explain_summary(path, center(form), form["header"])} :
        /\ hist' = [hist EXCEPT ![r].engine_called = TRUE,
                                ![r].source_existed = SourceExists(path),
                                ![r].engine_raised = out.raised,
                                ![r].engine_returned = ~out.raised,
                                ![r].rows_processed = SourceExists(path)]
        /\ IF out.raised
           THEN /\ Return(r, ExplainExceptResponse(Exc(out.exc_type, FALSE, "explain_summary")))
                /\ UNCHANGED result
           ELSE /\ result' = [result EXCEPT ![r] = [kind |-> "explanation", value |-> out.value]]
                /\ Return(r, ExplainResponse(form, out.value))
  /\ UNCHANGED <<req, response_data, artifact, outDirExists, csvPresent>>

\* The response is sent; the worker takes the next request.
Respond(r) ==
  /\ pc[r] = "done"
  /\ pc' = [pc EXCEPT ![r] = "idle"]
  /\ req' = [req EXCEPT ![r] = NoReq]
  /\ result' = [result EXCEPT ![r] = NoResult]
  /\ response_data' = [response_data EXCEPT ![r] = EmptyDict]
  /\ resp' = [resp EXCEPT ![r] = NoResp]
  /\ hist' = [hist EXCEPT ![r] = NoHist]
  /\ UNCHANGED <<artifact, outDirExists, csvPresent>>

Step(r) ==
  \/ GetOutlierv1(r)
  \/ PostOutlierv1(r)
  \/ CheckOutDir(r)
  \/ MakeDirs(r)
  \/ CallOutliers(r)
  \/ ReadArtifact(r)
  \/ PostExplain(r)
  \/ CallExplain(r)
  \/ Respond(r)

\* Requests are handled concurrently (Flask's threaded server).
Next == \E r \in Reqs : Step(r)

Spec == Init /\ [][Next]_vars

\* One request at a time: a request starts only when no other is in
\* progress.
Sequential(r) == \A q \in Reqs \ {r} : pc[q] \in {"idle", "done"}

SeqNext == \E r \in Reqs : Sequential(r) /\ Step(r)

SeqSpec == Init /\ [][SeqNext]_vars

\* A specification for the read-back of lines 136-165 alone: one request
\* stands at line 137 with a result that is neither a dict nor a list or
\* that holds nothing, and out_csv is any small table under either flag
\* column name.
MaxRows == 2

FlagTokens ==
  {"true", "True", "TRUE", "1", "yes", "Yes", "CHECK", "false", "False", "0", "no", ""}

TableRow(col, token) == Field("HEADER", "A") @@ Field(col, token)

Tables ==
  UNION { [1..k -> {TableRow(col, t) : t \in FlagTokens}] :
            k \in 0..MaxRows, col \in {"FLAG", "flag"} }

ParseInit ==
  /\ pc = [r \in Reqs |-> IF r = "r1" THEN "read_artifact" ELSE "idle"]
  /\ req = [r \in Reqs |-> IF r = "r1"
                           THEN [route |-> "outlierv1", method |-> "POST", form |-> EmptyDict]
                           ELSE NoReq]
  /\ \E res \in {NoResult, [kind |-> "list", value |-> <<>>]} :
       /\ result = [r \in Reqs |-> IF r = "r1" THEN res ELSE NoResult]
       /\ response_data = [r \in Reqs |-> IF r = "r1"
                                          THEN BuildResponseData(EmptyDict, res)
                                          ELSE EmptyDict]
  /\ resp = [r \in Reqs |-> NoResp]
  /\ hist = [r \in Reqs |-> IF r = "r1"
                            THEN [NoHist EXCEPT !.csv_checked = TRUE, !.dir_ok = TRUE,
                                                !.engine_called = TRUE,
                                                !.engine_returned = TRUE,
                                                !.source_existed = TRUE,
                                                !.rows_processed = TRUE, !.wrote = TRUE]
                            ELSE NoHist]
  /\ csvPresent = TRUE
  /\ outDirExists = TRUE
  /\ \E rows \in Tables : artifact = [exists |-> TRUE, rows |-> rows, writer |-> "r1"]

ParseNext == ReadArtifact("r1") \/ Respond("r1")

ParseSpec == ParseInit /\ [][ParseNext]_vars

\* ------------------------------------------------------------- claims
Done(r) == pc[r] = "done"
OutlierPost(r) == req[r].route = "outlierv1" /\ req[r].method = "POST"
ExplainPost(r) == req[r].route = "explain"
Success(r) == Done(r) /\ Get(resp[r].body, "success", FALSE)
TopOutliers(r) == Get(resp[r].body, "top_outliers", <<>>)
ResultFields == {"flagged_count", "total_count", "top_outliers", "explanation"}

\* C1: the flag /outlierv1 reports for an account equals the overall flag
\* /explain gives for the same account over the same source and center,
\* whatever thresholds the evaluation ran with.
C1_EvaluateExplainAgree ==
  \A r, q \in Reqs :
    ( /\ Success(r) /\ OutlierPost(r)
      /\ Success(q) /\ ExplainPost(q)
      /\ center(req[r].form) = center(req[q].form)
      /\ Get(req[q].form, "csv_path", csv_path) = csv_path )
    => \A i \in 1..Len(TopOutliers(r)) :
         TopOutliers(r)[i].header = req[q].form["header"]
           => TopOutliers(r)[i].flag = resp[q].body.explanation.flag

\* C2: in every successful /outlierv1 response flagged_count, total_count and
\* top_outliers come only from the value bot.outliers returned; out_csv is
\* never read back to populate them.
C2_ResultAuthoritative ==
  \A r \in Reqs :
    (Success(r) /\ OutlierPost(r))
    => /\ resp[r].body = BuildResponseData(req[r].form, result[r])
       /\ hist[r].populated = {}

\* C3: in every successful /outlierv1 response top_outliers is the first
\* min(top_n, n) entries of the ranked result, in order, and flagged_count
\* and total_count count the full result.
C3_Truncation ==
  \A r \in Reqs :
    (Success(r) /\ OutlierPost(r) /\ result[r].kind \in {"dict", "list"})
    => LET form == req[r].form
           full == EvaluationList(load(csv_path), center(form), thresholds(form))
           n == ParseNum(top_n_text(form))
       IN /\ TopOutliers(r) = SubSeq(full, 1, Min(n, Len(full)))
          /\ Len(TopOutliers(r)) <= n
          /\ resp[r].body.flagged_count = Len(full)
          /\ resp[r].body.total_count =
               IF result[r].kind = "dict" THEN result[r].value.total_count
               ELSE Len(result[r].value)

\* The parameters of a parsed form are out of domain: top_n <= 0 or a
\* negative threshold.
OutOfDomain(form) ==
  /\ FormParses(form)
  /\ \/ ParseNum(top_n_text(form)) <= 0
     \/ ParseNum(abs_threshold_text(form)) < 0
     \/ ParseNum(pct_threshold_text(form)) < 0
     \/ ParseNum(z_threshold_text(form)) < 0

C5_NoSwallowedErrors ==
  \A r \in Reqs :
    /\ hist[r].engine_raised
         => /\ Done(r)
            /\ resp[r].body.success = FALSE
            /\ resp[r].http_status \in {400, 500}
            /\ "error" \in DOMAIN resp[r].body
            /\ resp[r].body.error # <<>>
            /\ DOMAIN resp[r].body \cap ResultFields = {}
    /\ Success(r) => (hist[r].engine_returned /\ ~hist[r].engine_raised)

C5_Witness ==
  \E r \in Reqs :
    /\ Done(r) /\ ExplainPost(r) /\ hist[r].engine_raised
    /\ resp[r].body.error[1] = "NotFoundError"
    /\ resp[r].body.success = FALSE

\* C6: every engine call is preceded, in its request, by a successful
\* existence check of the source path, and bot.outliers also by the output
\* directory existing; a request whose source path does not exist never
\* reaches the engine.
C6_BoundaryValidated ==
  \A r \in Reqs :
    hist[r].engine_called
    => /\ hist[r].csv_checked
       /\ hist[r].source_existed
       /\ OutlierPost(r) => hist[r].dir_ok

\* C7: under every interleaving a successful /outlierv1 response reports
\* the counts and rows of its own evaluation only, never those another
\* request's run wrote to out_csv.
C7_OwnEvaluationOnly ==
  \A r \in Reqs :
    (Success(r) /\ OutlierPost(r) /\ result[r].kind \in {"dict", "list"})
    => LET form == req[r].form
           own == ArtifactRows(load(csv_path), center(form), thresholds(form))
       IN resp[r].body =
            FillFromArtifact(BuildResponseData(form, result[r]), own, top_n(form))

\* C8: every entry of top_outliers in a successful /outlierv1 response is a
\* flagged record.
C8_TopOutliersFlagged ==
  \A r \in Reqs :
    (Success(r) /\ OutlierPost(r))
    => \A i \in 1..Len(TopOutliers(r)) : TopOutliers(r)[i].flag

\* The flag of an artifact row as the alias set reads it: the field under
\* FLAG or under flag, lower-cased, is one of the truthy tokens.
AliasFlag(row) ==
  Lower(IF "FLAG" \in DOMAIN row THEN row["FLAG"]
        ELSE IF "flag" \in DOMAIN row THEN row["flag"] ELSE "false") \in TruthyTokens

\* C9: whenever artifact rows are parsed, under either flag column name, a
\* row's flag is true exactly when its field is a truthy token, and the
\* flagged_count derived from the rows is the number of rows whose parsed
\* flag is true.
C9_FlagParsingUniform ==
  \A r \in Reqs :
    (Success(r) /\ OutlierPost(r))
    => /\ "top_outliers" \in hist[r].populated
            => \A i \in 1..Len(TopOutliers(r)) :
                 TopOutliers(r)[i].flag = AliasFlag(artifact.rows[i])
       /\ "flagged_count" \in hist[r].populated
            => resp[r].body.flagged_count =
                 Cardinality({i \in 1..Len(artifact.rows) : AliasFlag(artifact.rows[i])})

====
